---------------------------- MODULE Spec2Model ----------------------------
(***************************************************************************)
(* Destructible terrain of the artillery game (src/main.py, TerrainMap):   *)
(* the per-pixel solid/empty grid, the derived height map, the crater      *)
(* records, crater creation and the crater merge pass.                     *)
(*                                                                         *)
(* Real-valued arguments (Python floats such as a projectile's position)   *)
(* are represented in halves: the argument 2*k stands for the number k and *)
(* 2*k+1 for k + 0.5.  IntOf is Python's int(): truncation toward zero.    *)
(***************************************************************************)
EXTENDS Integers, Sequences, FiniteSets, TLC

\* ------------------------------------------------------------------ bounds
W == 6              \* grid width  (SCREEN_WIDTH in the game)
H == 3              \* grid height (SCREEN_HEIGHT in the game)
MaxCreates == 2     \* create_crater calls per behaviour of Spec
MaxMergeCreates == 3 \* create_crater calls per behaviour of SpecMerge
MaxCapCreates == 56 \* create_crater calls per behaviour of SpecCap
MaxBlastCreates == 3 \* create_crater calls per behaviour of SpecBlast
MaxWidth == 201     \* largest width handed to the terrain generator
MaxLen == 4         \* longest profile handed to smooth_terrain on its own
MaxIterations == 3  \* most passes asked of smooth_terrain on its own
MaxShots == 1       \* shots fired per behaviour of SpecGame

\* ------------------------------------------------------- program constants
SEARCH_RADIUS == 3      \* get_ground_height: search_radius
MAX_CRATERS == 50       \* merge_overlapping_craters: list cap
RADIUS_EXPANSION == 20  \* merge_overlapping_craters: max(r1, r2) + 20
OVERLAP_NUM == 4        \* overlap_factor = 0.8 = OVERLAP_NUM / OVERLAP_DEN
OVERLAP_DEN == 5
SCREEN_HEIGHT == 720    \* SCREEN_HEIGHT
DUNE_MARGIN == 100      \* add_sand_dunes: random.randint(100, width - 100)
DUNE_WIDTH == 80        \* add_sand_dunes: the smallest random.randint(80, 150)

VARIABLES
    terrain_pixels,  \* [column -> [row -> BOOLEAN]], TRUE = solid
    height_map,      \* [column -> row]
    ground_level,    \* average (or uniform) height given at construction
    craters,         \* sequence of crater records
    clock,           \* last value time.time() returned
    ncreates,        \* number of create_crater calls so far
    last,            \* the call that produced this state, with its arguments
    gen,             \* the run of generate_varied_terrain: stage, inputs, profile
    game             \* GameManager: main-loop phase, state, players, projectiles

vars == <<terrain_pixels, height_map, ground_level, craters, clock, ncreates, last, gen,
          game>>

Cols == 0..(W - 1)
Rows == 0..(H - 1)

Min(a, b) == IF a <= b THEN a ELSE b
Max(a, b) == IF a >= b THEN a ELSE b
Abs(a) == IF a >= 0 THEN a ELSE -a

\* Python int() of the real number n2/2: truncation toward zero.
IntOf(n2) == IF n2 >= 0 THEN n2 \div 2 ELSE -((-n2) \div 2)

\* math.isqrt: the integer part of math.sqrt(n) for the small n >= 0 used here.
ISqrt(n) == CHOOSE s \in 0..n : s * s <= n /\ (s + 1) * (s + 1) > n

RECURSIVE SumTo(_, _)
SumTo(f, n) == IF n = 0 THEN 0 ELSE f[n - 1] + SumTo(f, n - 1)

\* ------------------------------------------------------------- construction
\* The pixel grid __init__ builds from a height map: rows >= height are solid.
InitialPixels(hm) ==
    [x \in Cols |-> [y \in Rows |-> y >= hm[x]]]

\* for y in range(self.height): if self.terrain_pixels[x][y]: ... break
\* The first solid row of column x of grid px at or below row y, H if none.
RECURSIVE FirstSolidFrom(_, _, _)
FirstSolidFrom(px, x, y) ==
    IF y >= H THEN H
    ELSE IF px[x][y] THEN y
    ELSE FirstSolidFrom(px, x, y + 1)

\* Faulty variant of TopSolid: the column is scanned upward from the bottom
\* row and the top of the lowest run of solid cells is returned.
TopSolidFromBottom(px, x) ==
    IF ~px[x][H - 1] THEN H
    ELSE CHOOSE y \in Rows :
            /\ \A z \in y..(H - 1) : px[x][z]
            /\ (y = 0 \/ ~px[x][y - 1])

\* The topmost solid row of column x of grid px, or H when the column is empty.
TopSolid(px, x) == FirstSolidFrom(px, x, 0)

\* Faulty variant of update_height_map: the height map is not recomputed.
update_height_map_stale(px) == height_map

\* _update_height_map: full rescan of every column.
update_height_map(px) == [x \in Cols |-> TopSolid(px, x)]

\* ------------------------------------------------------------------ queries
\* x_int = max(0, min(self.width - 1, int(x)))
ClampCol(x2) == Max(0, Min(W - 1, IntOf(x2)))

SetMin(S) == CHOOSE m \in S : \A n \in S : m <= n

\* The loop of get_ground_height from offset dx to offset hi: a column
\* check_x = x_int + dx is looked at when 0 <= check_x < width, and lowers
\* min_height when it has a solid pixel.  What the loop leaves is the least
\* of min_height and the top rows of the columns looked at.
ScanWindow(px, x_int, dx, hi, min_height) ==
    SetMin({min_height} \cup
           {TopSolid(px, check_x) :
               check_x \in {c \in (x_int + dx)..(x_int + hi) :
                               0 <= c /\ c < W /\ TopSolid(px, c) < H}})

\* Faulty variant of get_ground_height: dx in range(-search_radius, search_radius),
\* which misses the column x_int + search_radius.
get_ground_height_narrow(hm, px, x2) ==
    ScanWindow(px, ClampCol(x2), -SEARCH_RADIUS, SEARCH_RADIUS - 1, hm[ClampCol(x2)])

\* Faulty variant of get_ground_height: dx in range(-search_radius - 1, search_radius + 2).
get_ground_height_wide(hm, px, x2) ==
    ScanWindow(px, ClampCol(x2), -SEARCH_RADIUS - 1, SEARCH_RADIUS + 1, hm[ClampCol(x2)])

\* get_ground_height(x) on height map hm and grid px: min_height starts at
\* height_map[x_int]; dx in range(-search_radius, search_radius + 1).
get_ground_height(hm, px, x2) ==
    ScanWindow(px, ClampCol(x2), -SEARCH_RADIUS, SEARCH_RADIUS, hm[ClampCol(x2)])

\* is_solid_at(x, y) for integer arguments.
is_solid_at(px, x, y) ==
    IF x < 0 \/ x >= W \/ y < 0 \/ y >= H THEN FALSE ELSE px[x][y]

\* self.terrain_pixels[i][j] for integers i and j, as Python indexes a list:
\* an index from -len to -1 counts from the end, any index outside
\* -len .. len - 1 raises IndexError.
PyCell(px, i, j) ==
    IF i < -W \/ i >= W \/ j < -H \/ j >= H
    THEN [raised |-> TRUE, value |-> FALSE]
    ELSE [raised |-> FALSE, value |-> px[i % W][j % H]]

\* Faulty variant of is_solid_at_outcome: the bounds test is made on the
\* truncated coordinates int(x) and int(y).
is_solid_at_outcome_truncated(px, x2, y2) ==
    IF IntOf(x2) < 0 \/ IntOf(x2) >= W \/ IntOf(y2) < 0 \/ IntOf(y2) >= H
    THEN [raised |-> FALSE, value |-> FALSE]
    ELSE PyCell(px, IntOf(x2), IntOf(y2))

\* is_solid_at(x, y) for real arguments x = x2/2 and y = y2/2: whether the
\* call raises, and the value it returns when it does not.
is_solid_at_outcome(px, x2, y2) ==
    IF x2 < 0 \/ x2 >= 2 * W \/ y2 < 0 \/ y2 >= 2 * H
    THEN [raised |-> FALSE, value |-> FALSE]
    ELSE PyCell(px, IntOf(x2), IntOf(y2))

\* for y in range(int(y_start), self.height):
\*     if self.terrain_pixels[x_int][y]: return y
\* return self.height
RECURSIVE AccurateScan(_, _, _)
AccurateScan(px, x_int, y) ==
    IF y >= H THEN [raised |-> FALSE, value |-> H]
    ELSE LET cell == PyCell(px, x_int, y)
         IN IF cell.raised THEN [raised |-> TRUE, value |-> 0]
            ELSE IF cell.value THEN [raised |-> FALSE, value |-> y]
            ELSE AccurateScan(px, x_int, y + 1)

\* get_accurate_ground_height(x, y_start) for real arguments, in halves.
get_accurate_ground_height(px, x2, y_start2) ==
    AccurateScan(px, ClampCol(x2), IntOf(y_start2))

\* The loop of check_wall_collision from row check_y on:
\* for check_y in range(int(y), int(y + height), 2), the left edge x - 1
\* before the right edge x + width.
RECURSIVE WallScan(_, _, _, _, _)
WallScan(px, x2, width, check_y, stop) ==
    IF check_y >= stop THEN "none"
    ELSE IF is_solid_at_outcome(px, x2 - 2, 2 * check_y).value THEN "left"
    ELSE IF is_solid_at_outcome(px, x2 + 2 * width, 2 * check_y).value THEN "right"
    ELSE WallScan(px, x2, width, check_y + 2, stop)

\* check_wall_collision(x, y, width, height) for real x and y, in halves, and
\* integer width and height; "none" stands for None.
check_wall_collision(px, x2, y2, width, height) ==
    WallScan(px, x2, width, IntOf(y2), IntOf(y2 + 2 * height))

\* ----------------------------------------------------------- crater creation
\* Faulty variant of WithinRadius: distance < radius.
WithinRadiusStrict(dx, dy, radius) == radius > 0 /\ dx * dx + dy * dy < radius * radius

\* Faulty variant of WithinRadius: the larger of |dx| and |dy| stands in for the distance.
WithinSquare(dx, dy, radius) == Max(Abs(dx), Abs(dy)) <= radius

\* distance <= radius, with distance = math.sqrt(dx**2 + dy**2): for the
\* integers used here the float comparison agrees with dx^2 + dy^2 <= radius^2
\* when radius >= 0, and is false for a negative radius.
WithinRadius(dx, dy, radius) == radius >= 0 /\ dx * dx + dy * dy <= radius * radius

\* i in range(max(0, c - radius), min(limit, c + radius + 1))
InCraterRange(i, c, radius, limit) ==
    Max(0, c - radius) <= i /\ i < Min(limit, c + radius + 1)

\* Faulty variant of CarvedPixels: every cell of the bounding box is assigned
\* distance > radius, which makes the corners of the box solid.
CarvedPixelsAssigned(px, cx, cy, radius) ==
    [x \in Cols |-> [y \in Rows |->
        IF /\ InCraterRange(x, cx, radius, W)
           /\ InCraterRange(y, cy, radius, H)
        THEN ~WithinRadius(x - cx, y - cy, radius)
        ELSE px[x][y]]]

\* The grid after the double loop of create_crater.
CarvedPixels(px, cx, cy, radius) ==
    [x \in Cols |-> [y \in Rows |->
        IF /\ InCraterRange(x, cx, radius, W)
           /\ InCraterRange(y, cy, radius, H)
           /\ WithinRadius(x - cx, y - cy, radius)
        THEN FALSE
        ELSE px[x][y]]]

\* Faulty variant of CraterInfo: the two coordinates change places.
CraterInfoSwapped(cx, cy, radius, now) ==
    [x |-> cy, y |-> cx, radius |-> radius, creation_time |-> now]

\* crater_info = {'x': int(center_x), 'y': int(center_y), 'radius': radius,
\*                'creation_time': time.time()}
CraterInfo(cx, cy, radius, now) ==
    [x |-> cx, y |-> cy, radius |-> radius, creation_time |-> now]

\* create_crater(center_x, center_y, radius); now is what time.time() returns.
create_crater(center_x2, center_y2, radius, now) ==
    /\ craters' = Append(craters, CraterInfo(IntOf(center_x2), IntOf(center_y2), radius, now))
    /\ terrain_pixels' = CarvedPixels(terrain_pixels, IntOf(center_x2), IntOf(center_y2), radius)
    /\ height_map' = update_height_map(terrain_pixels')
    /\ clock' = now
    /\ ncreates' = ncreates + 1
    /\ last' = [op |-> "create_crater", center_x2 |-> center_x2,
                center_y2 |-> center_y2, radius |-> radius]
    /\ UNCHANGED <<ground_level, gen, game>>


\* -------------------------------------------------------------- crater merge
\* self.craters.sort(key=creation_time): Python's sort is stable, so record i
\* goes after every record with an earlier time and after the records of the
\* same time that stood before it.
SortRank(s, i) ==
    Cardinality({j \in 1..Len(s) :
        \/ s[j].creation_time < s[i].creation_time
        \/ (s[j].creation_time = s[i].creation_time /\ j <= i)})

SortByTime(s) ==
    [k \in 1..Len(s) |-> s[CHOOSE i \in 1..Len(s) : SortRank(s, i) = k]]

DistSq(a, b) == (a.x - b.x) * (a.x - b.x) + (a.y - b.y) * (a.y - b.y)

\* Faulty variant of Overlaps: overlap_factor 1.0, the circles merely intersect.
OverlapsTouching(current, merged) ==
    /\ current.radius + merged.radius > 0
    /\ DistSq(current, merged)
         < (current.radius + merged.radius) * (current.radius + merged.radius)

\* distance < (current.radius + merged.radius) * overlap_factor.  The distance
\* is a square root of an integer and the factor is 0.8, so the test is
\* 5 * distance < 4 * (r1 + r2); a non-positive sum of radii never passes.
Overlaps(current, merged) ==
    /\ current.radius + merged.radius > 0
    /\ OVERLAP_DEN * OVERLAP_DEN * DistSq(current, merged)
         < OVERLAP_NUM * OVERLAP_NUM
             * (current.radius + merged.radius) * (current.radius + merged.radius)

\* The pairs of radii (up to sign and order) and the common coordinate a for
\* which IEEE double arithmetic gives a * weight1 + a * weight2 < a, so that
\* int() returns a - 1.  Computed from the Python expression for radii of
\* magnitude <= 16 and coordinates 0..9; in every other case of that domain
\* the float result truncates to the same integer as the exact quotient.
FloatShortfall ==
    { <<1, 4, 3>>, <<1, 4, 6>>, <<1, 7, 7>>, <<1, 9, 7>>, <<1, 12, 3>>,
      <<1, 12, 6>>, <<2, 8, 3>>, <<2, 8, 6>>, <<2, 9, 3>>, <<2, 9, 6>>,
      <<2, 9, 7>>, <<2, 14, 7>>, <<2, 15, 7>>, <<3, 12, 3>>, <<3, 12, 6>>,
      <<3, 13, 3>>, <<3, 13, 6>>, <<4, 16, 3>>, <<4, 16, 6>>, <<5, 11, 5>>,
      <<5, 14, 7>>, <<9, 14, 7>> }

\* Faulty variant of WeightedCoord: each coordinate is weighted with the
\* other crater's radius.
WeightedCoordSwapped(c1, r1, c2, r2) ==
    (c1 * r2 * r2 + c2 * r1 * r1) \div (r1 * r1 + r2 * r2)

\* int(c1 * weight1 + c2 * weight2) with weight_i = r_i**2 / (r1**2 + r2**2),
\* for coordinates c1, c2 >= 0.
WeightedCoord(c1, r1, c2, r2) ==
    LET exact == (c1 * r1 * r1 + c2 * r2 * r2) \div (r1 * r1 + r2 * r2)
        lo == Min(Abs(r1), Abs(r2))
        hi == Max(Abs(r1), Abs(r2))
    IN IF c1 = c2 /\ <<lo, hi, c1>> \in FloatShortfall THEN exact - 1 ELSE exact

\* Faulty variant of MergedRadius: the extent is measured from the smaller
\* of the two radii.
MergedRadiusFromSmaller(current, merged) ==
    LET small == Min(current.radius, merged.radius)
        big == Max(current.radius, merged.radius)
        ext == Max(ISqrt(DistSq(current, merged)) + small,
                   current.radius + (merged.radius \div 2))
    IN Min(ext, big + RADIUS_EXPANSION)

\* new_radius = min(int(max_extent), max(r1, r2) + 20) where max_extent =
\* max(distance + r1, distance + r2, r1 + r2 * 0.5), r1 the current crater's.
MergedRadius(current, merged) ==
    LET big == Max(current.radius, merged.radius)
        ext == Max(ISqrt(DistSq(current, merged)) + big,
                   current.radius + (merged.radius \div 2))
    IN Min(ext, big + RADIUS_EXPANSION)

\* The record that replaces merged[j].
MergedCrater(current, merged) ==
    [x |-> WeightedCoord(current.x, current.radius, merged.x, merged.radius),
     y |-> WeightedCoord(current.y, current.radius, merged.y, merged.radius),
     radius |-> MergedRadius(current, merged),
     creation_time |-> Max(current.creation_time, merged.creation_time)]

\* One iteration of the outer loop: the first overlapping entry of the
\* accumulator is replaced, or the crater is appended.
MergeOne(merged, current) ==
    LET J == {j \in 1..Len(merged) : Overlaps(current, merged[j])}
    IN IF J = {}
       THEN Append(merged, current)
       ELSE [merged EXCEPT ![SetMin(J)] = MergedCrater(current, merged[SetMin(J)])]

\* The outer loop from record i on, with the accumulator merged.  The crater
\* of an iteration and the accumulator it leaves are values, computed once
\* before the next iteration starts.
RECURSIVE MergeFrom(_, _, _)
MergeFrom(merged, s, i) ==
    IF i > Len(s) THEN merged
    ELSE CHOOSE result \in {MergeFrom(next, s, i + 1) :
                               next \in {MergeOne(merged, current) :
                                            current \in {s[i]}}} : TRUE

\* The merges of the outer loop from record i on: for every crater that
\* overlaps an accumulator entry, the crater, the first such entry and the
\* record that replaces it.
RECURSIVE MergeEventsFrom(_, _, _, _)
MergeEventsFrom(merged, s, i, events) ==
    IF i > Len(s) THEN events
    ELSE LET J == {j \in 1..Len(merged) : Overlaps(s[i], merged[j])}
             next == MergeOne(merged, s[i])
         IN IF J = {}
            THEN MergeEventsFrom(next, s, i + 1, events)
            ELSE MergeEventsFrom(next, s, i + 1,
                     events \cup {[current |-> s[i],
                                   merged |-> merged[SetMin(J)],
                                   result |-> next[SetMin(J)]]})

\* The merges a call of merge_overlapping_craters makes on the list s.
MergeEvents(s) ==
    IF Len(s) < 2 THEN {} ELSE MergeEventsFrom(<<>>, SortByTime(s), 1, {})

\* if len(self.craters) > 50: self.craters = self.craters[-50:]
Truncate(s) ==
    IF Len(s) > MAX_CRATERS THEN SubSeq(s, Len(s) - MAX_CRATERS + 1, Len(s)) ELSE s

\* self.craters = merged: the accumulator at the end of the outer loop.
MergedUntruncated(s) == MergeFrom(<<>>, SortByTime(s), 1)

\* The list merge_overlapping_craters leaves: the sorted list and the
\* accumulator of the loop are computed once each.
MergedList(s) ==
    IF Len(s) < 2 THEN s
    ELSE CHOOSE result \in {Truncate(merged) :
                               merged \in {MergeFrom(<<>>, sorted, 1) :
                                              sorted \in {SortByTime(s)}}} : TRUE

\* Faulty variant of merge_overlapping_craters: the pass carves the first
\* record it returns into the grid again.
merge_overlapping_craters_carving ==
    /\ craters' = MergedList(craters)
    /\ terrain_pixels' =
          IF Len(craters') = 0 THEN terrain_pixels
          ELSE CarvedPixels(terrain_pixels, craters'[1].x, craters'[1].y,
                            craters'[1].radius)
    /\ height_map' = update_height_map(terrain_pixels')
    /\ last' = [op |-> "merge_overlapping_craters", center_x2 |-> 0,
                center_y2 |-> 0, radius |-> 0]
    /\ UNCHANGED <<ground_level, clock, ncreates, gen, game>>

merge_overlapping_craters ==
    /\ craters' = MergedList(craters)
    /\ last' = [op |-> "merge_overlapping_craters", center_x2 |-> 0,
                center_y2 |-> 0, radius |-> 0]
    /\ UNCHANGED <<terrain_pixels, height_map, ground_level, clock, ncreates, gen,
                   game>>

\* -------------------------------------------------------- terrain generator
BASE_GROUND_LEVEL == SCREEN_HEIGHT - 100
MIN_HEIGHT == SCREEN_HEIGHT - 220
MAX_HEIGHT == SCREEN_HEIGHT - 40

\* The complexities 0.5, 1.0 and 2.0, written as 2 * complexity.
Complexities == {1, 2, 4}

\* The integer part of base_ground_level + primary_height + secondary_height
\* + tertiary_height + ripple_height (with the slope modifier of the
\* asymmetry wave) of generate_height_map, computed from the Python
\* expression for each column x.
\* complexity 0.5, x = 0 .. 204.
WaveHalf == <<
      620, 620, 620, 620, 620, 621, 621, 621, 621, 622, 622, 622, 622, 623, 623, 623, 623, 624, 624, 624,
      624, 625, 625, 625, 625, 625, 626, 626, 626, 626, 627, 627, 627, 627, 627, 628, 628, 628, 628, 629,
      629, 629, 629, 629, 630, 630, 630, 630, 630, 631, 631, 631, 631, 631, 631, 632, 632, 632, 632, 632,
      633, 633, 633, 633, 633, 633, 634, 634, 634, 634, 634, 634, 635, 635, 635, 635, 635, 635, 635, 636,
      636, 636, 636, 636, 636, 636, 637, 637, 637, 637, 637, 637, 637, 637, 638, 638, 638, 638, 638, 638,
      638, 638, 638, 639, 639, 639, 639, 639, 639, 639, 639, 639, 639, 640, 640, 640, 640, 640, 640, 640,
      640, 640, 640, 641, 641, 641, 641, 641, 641, 641, 641, 641, 641, 641, 641, 642, 642, 642, 642, 642,
      642, 642, 642, 642, 642, 642, 643, 643, 643, 643, 643, 643, 643, 643, 643, 643, 643, 643, 644, 644,
      644, 644, 644, 644, 644, 644, 644, 644, 645, 645, 645, 645, 645, 645, 645, 645, 645, 645, 646, 646,
      646, 646, 646, 646, 646, 646, 647, 647, 647, 647, 647, 647, 647, 647, 647, 648, 648, 648, 648, 648,
      648, 648, 649, 649, 649 >>

\* complexity 1.0, x = 0 .. 204.
WaveOne == <<
      620, 620, 621, 622, 623, 624, 625, 626, 627, 628, 629, 630, 631, 632, 633, 634, 634, 635, 636, 637,
      638, 639, 640, 640, 641, 642, 643, 643, 644, 645, 646, 646, 647, 648, 648, 649, 650, 650, 651, 651,
      652, 653, 653, 654, 654, 655, 655, 656, 656, 657, 657, 657, 658, 658, 659, 659, 659, 660, 660, 661,
      661, 661, 662, 662, 662, 663, 663, 663, 664, 664, 664, 665, 665, 666, 666, 666, 667, 667, 667, 668,
      668, 668, 669, 669, 670, 670, 670, 671, 671, 672, 672, 673, 673, 674, 674, 674, 675, 675, 676, 676,
      677, 678, 678, 679, 679, 680, 680, 681, 681, 682, 683, 683, 684, 684, 685, 686, 686, 687, 687, 688,
      689, 689, 690, 690, 691, 692, 692, 693, 693, 694, 695, 695, 696, 696, 697, 697, 698, 698, 699, 699,
      700, 700, 701, 701, 702, 702, 702, 703, 703, 704, 704, 704, 704, 705, 705, 705, 706, 706, 706, 706,
      706, 706, 707, 707, 707, 707, 707, 707, 707, 707, 707, 707, 707, 707, 707, 707, 707, 707, 707, 707,
      707, 707, 707, 706, 706, 706, 706, 706, 706, 706, 706, 705, 705, 705, 705, 705, 705, 705, 704, 704,
      704, 704, 704, 704, 704 >>

\* complexity 2.0, x = 0 .. 204.
WaveTwo == <<
      620, 623, 627, 631, 635, 639, 642, 646, 649, 653, 656, 660, 663, 666, 669, 672, 675, 677, 680, 682,
      685, 687, 689, 691, 693, 695, 696, 698, 699, 701, 702, 704, 705, 707, 708, 709, 711, 712, 714, 715,
      717, 718, 720, 721, 723, 725, 727, 728, 730, 732, 735, 737, 739, 741, 743, 746, 748, 751, 753, 755,
      758, 760, 763, 765, 767, 770, 772, 774, 776, 778, 780, 782, 784, 785, 787, 788, 789, 791, 792, 792,
      793, 794, 794, 795, 795, 795, 795, 795, 795, 794, 794, 794, 793, 793, 792, 792, 791, 791, 790, 789,
      789, 788, 788, 788, 787, 787, 787, 787, 787, 787, 787, 787, 788, 788, 789, 789, 790, 791, 791, 792,
      793, 794, 795, 796, 798, 799, 800, 801, 802, 803, 804, 805, 806, 807, 808, 809, 810, 810, 811, 811,
      812, 812, 812, 812, 813, 812, 812, 812, 812, 812, 811, 811, 810, 810, 809, 808, 808, 807, 807, 806,
      806, 805, 805, 804, 804, 804, 804, 803, 803, 804, 804, 804, 805, 805, 806, 807, 807, 808, 810, 811,
      812, 813, 815, 816, 818, 819, 821, 823, 824, 826, 828, 829, 831, 833, 834, 836, 837, 839, 840, 841,
      842, 843, 844, 845, 846 >>

\* dune_height 30, steep side, distance 0 .. 79.
DropSteep30 == <<
      30, 30, 30, 30, 30, 30, 30, 30, 30, 29, 29, 29, 29, 29, 28, 28, 28, 28, 27, 27,
      27, 26, 26, 26, 26, 25, 25, 25, 24, 24, 24, 23, 23, 23, 22, 22, 21, 21, 21, 20,
      20, 19, 19, 19, 18, 18, 17, 17, 17, 16, 16, 15, 15, 14, 14, 13, 13, 12, 12, 11,
      11, 11, 10, 10, 9, 9, 8, 8, 7, 6, 6, 5, 5, 4, 4, 3, 3, 2, 2, 1 >>

\* dune_height 30, gentle side, distance 0 .. 79.
DropGentle30 == <<
      30, 29, 28, 27, 27, 26, 26, 25, 25, 24, 24, 23, 23, 22, 22, 21, 21, 20, 20, 20,
      19, 19, 18, 18, 18, 17, 17, 16, 16, 16, 15, 15, 15, 14, 14, 14, 13, 13, 13, 12,
      12, 12, 11, 11, 11, 10, 10, 10, 10, 9, 9, 9, 8, 8, 8, 7, 7, 7, 7, 6,
      6, 6, 5, 5, 5, 5, 4, 4, 4, 3, 3, 3, 3, 2, 2, 2, 2, 1, 1, 1 >>

\* dune_height 60, steep side, distance 0 .. 79.
DropSteep60 == <<
      60, 60, 60, 60, 60, 60, 59, 59, 59, 58, 58, 57, 57, 57, 56, 56, 55, 55, 54, 54,
      53, 52, 52, 51, 51, 50, 49, 49, 48, 47, 47, 46, 45, 45, 44, 43, 42, 42, 41, 40,
      39, 38, 38, 37, 36, 35, 34, 33, 33, 32, 31, 30, 29, 28, 27, 26, 25, 24, 23, 22,
      22, 21, 20, 19, 18, 17, 16, 15, 13, 12, 11, 10, 9, 8, 7, 6, 5, 4, 3, 2 >>

\* dune_height 60, gentle side, distance 0 .. 79.
DropGentle60 == <<
      60, 58, 56, 54, 53, 52, 51, 50, 49, 47, 47, 46, 45, 44, 43, 42, 41, 40, 39, 39,
      38, 37, 36, 35, 35, 34, 33, 32, 32, 31, 30, 30, 29, 28, 28, 27, 26, 26, 25, 24,
      24, 23, 22, 22, 21, 20, 20, 19, 19, 18, 17, 17, 16, 16, 15, 14, 14, 13, 13, 12,
      11, 11, 10, 10, 9, 9, 8, 8, 7, 6, 6, 5, 5, 4, 4, 3, 3, 2, 2, 1 >>

\* dune_height 120, steep side, distance 0 .. 79.
DropSteep120 == <<
      120, 120, 120, 120, 119, 119, 118, 117, 117, 116, 115, 114, 114, 113, 112, 111, 110, 109, 108, 107,
      105, 104, 103, 102, 101, 100, 98, 97, 96, 94, 93, 92, 90, 89, 87, 86, 84, 83, 81, 80,
      78, 76, 75, 73, 72, 70, 68, 66, 65, 63, 61, 59, 58, 56, 54, 52, 50, 48, 46, 44,
      43, 41, 39, 37, 35, 33, 31, 29, 26, 24, 22, 20, 18, 16, 14, 12, 9, 7, 5, 3 >>

\* dune_height 120, gentle side, distance 0 .. 79.
DropGentle120 == <<
      120, 115, 111, 108, 106, 103, 101, 99, 97, 94, 93, 91, 89, 87, 85, 83, 82, 80, 78, 77,
      75, 73, 72, 70, 69, 67, 66, 64, 63, 62, 60, 59, 57, 56, 55, 53, 52, 51, 49, 48,
      47, 45, 44, 43, 42, 40, 39, 38, 37, 35, 34, 33, 32, 31, 29, 28, 27, 26, 25, 24,
      22, 21, 20, 19, 18, 17, 16, 15, 13, 12, 11, 10, 9, 8, 7, 6, 5, 4, 3, 2 >>

WaveSum(c2, x) ==
    (IF c2 = 1 THEN WaveHalf ELSE IF c2 = 2 THEN WaveOne ELSE WaveTwo)[x + 1]

\* random_variation = (random.random() - 0.5) * 12 * complexity for the draws
\* random.random() = 0.0 and 0.5, written r2 = 0 and r2 = 1: a whole number,
\* so it shifts the integer part of the sum by itself.
RandomVariation(c2, r2) == (r2 - 1) * 3 * c2

\* total_height = max(min_height, min(max_height, total_height))
ClampHeight(total_height) == Max(MIN_HEIGHT, Min(MAX_HEIGHT, total_height))

\* generate_height_map(width, complexity) when every random.random() returns
\* r2 / 2: one clamped integer per column.  (The draws made every 200
\* columns for a "major dune" do not enter the result.)
generate_height_map(width, c2, r2) ==
    [x \in 0..(width - 1) |-> ClampHeight(WaveSum(c2, x) + RandomVariation(c2, r2))]

\* num_dunes = int(3 + complexity * 2)
NumDunes(c2) == 3 + c2

\* dune_addition = influence * dune_height rounded up to a whole number, for
\* dune_width = 80.  influence is 1 - (distance / dune_width) ** 1.5 on the
\* steep side and 1 - (distance / dune_width) ** 0.7 on the gentle side.
DuneAdditionCeil(dune_height, steep, distance) ==
    (IF steep
     THEN (30 :> DropSteep30 @@ 60 :> DropSteep60 @@ 120 :> DropSteep120)
     ELSE (30 :> DropGentle30 @@ 60 :> DropGentle60 @@ 120 :> DropGentle120)
    )[dune_height][distance + 1]

\* The cases in which dune_addition is a whole number: the dune centre, and
\* influence = 1 - 0.25 ** 1.5 = 0.875 with dune_height = 120.
DuneAdditionWhole(dune_height, steep, distance) ==
    distance = 0 \/ (dune_height = 120 /\ steep /\ distance = 20)

\* int(enhanced_map[x] - dune_addition): int() truncates toward zero, so a
\* difference >= 0 is rounded down and a negative difference is rounded up.
LoweredHeight(enhanced, dune_height, steep, distance) ==
    LET up == DuneAdditionCeil(dune_height, steep, distance)
        down == IF DuneAdditionWhole(dune_height, steep, distance) THEN up ELSE up - 1
    IN IF enhanced >= up THEN enhanced - up ELSE enhanced - down

\* One iteration of the loop of add_sand_dunes: a dune at dune_center of
\* width DUNE_WIDTH and height dune_height with the steep side steep_side.
AddDune(map, width, dune_center, dune_height, steep_side) ==
    [x \in 0..(width - 1) |->
        IF /\ Max(0, dune_center - DUNE_WIDTH) <= x
           /\ x < Min(width, dune_center + DUNE_WIDTH)
           /\ Abs(x - dune_center) < DUNE_WIDTH
        THEN LoweredHeight(map[x], dune_height, (x - dune_center) * steep_side > 0,
                           Abs(x - dune_center))
        ELSE map[x]]

\* Faulty variant of SmoothedValue: the weights do not add up to one.
SmoothedValueThirds(a, b, c) ==
    IF a + 2 * b + c >= 0 THEN (a + 2 * b + c) \div 3 ELSE -((-(a + 2 * b + c)) \div 3)

\* int(a * 0.25 + b * 0.5 + c * 0.25): the sum is exact, int() truncates
\* toward zero.
SmoothedValue(a, b, c) ==
    IF a + 2 * b + c >= 0 THEN (a + 2 * b + c) \div 4 ELSE -((-(a + 2 * b + c)) \div 4)

\* One pass of smooth_terrain over a profile of n values: the first and the
\* last value are kept.
SmoothPass(smoothed, n) ==
    [i \in 0..(n - 1) |->
        IF 1 <= i /\ i <= n - 2
        THEN SmoothedValue(smoothed[i - 1], smoothed[i], smoothed[i + 1])
        ELSE smoothed[i]]

RECURSIVE smooth_terrain(_, _, _)
smooth_terrain(map, n, iterations) ==
    IF iterations <= 0 THEN map
    ELSE smooth_terrain(SmoothPass(map, n), n, iterations - 1)

\* Faulty variant of ReturnHeightMap: the generator keeps the profile of its
\* last call and starts the next one from it.
ReturnHeightMapStateful(width, c2, r2) ==
    gen' = [stage |-> "height_map", width |-> width, complexity2 |-> c2,
            draw |-> r2, iterations |-> 0, dunes_left |-> NumDunes(c2),
            profile |-> [x \in 0..(width - 1) |->
                            IF x \in DOMAIN gen.profile
                            THEN ClampHeight(gen.profile[x] + 1)
                            ELSE generate_height_map(width, c2, r2)[x]],
            previous |-> [width |-> gen.width, complexity2 |-> gen.complexity2,
                          draw |-> gen.draw, profile |-> gen.profile]]

\* A call of generate_height_map(width, complexity) returns: the run holds
\* the new profile, and the call before it is remembered with its arguments,
\* its draws and its result.
ReturnHeightMap(width, c2, r2) ==
    gen' = [stage |-> "height_map", width |-> width, complexity2 |-> c2,
            draw |-> r2, iterations |-> 0, dunes_left |-> NumDunes(c2),
            profile |-> generate_height_map(width, c2, r2),
            previous |-> [width |-> gen.width, complexity2 |-> gen.complexity2,
                          draw |-> gen.draw, profile |-> gen.profile]]

\* generate_varied_terrain(width, complexity), first call:
\* height_map = self.generate_height_map(width, complexity).
GenerateHeightMap(width, c2, r2) ==
    /\ gen.stage = "idle"
    /\ ReturnHeightMap(width, c2, r2)
    /\ UNCHANGED <<terrain_pixels, height_map, ground_level, craters, clock,
                   ncreates, last, game>>

\* generate_height_map(width, complexity) called on its own, on a generator
\* that may have been called before.
CallHeightMap(width, c2, r2) ==
    /\ gen.stage \in {"idle", "height_map"}
    /\ ReturnHeightMap(width, c2, r2)
    /\ UNCHANGED <<terrain_pixels, height_map, ground_level, craters, clock,
                   ncreates, last, game>>

\* smooth_terrain(height_map, iterations) called on its own on a fresh
\* generator: the argument is remembered as the previous profile, the result
\* is the profile.
SmoothTerrain(profile, n, iterations) ==
    /\ gen.stage = "idle"
    /\ gen' = [gen EXCEPT !.stage = "smoothed", !.width = n,
                          !.iterations = iterations,
                          !.profile = smooth_terrain(profile, n, iterations),
                          !.previous = [@ EXCEPT !.width = n, !.profile = profile]]
    /\ UNCHANGED <<terrain_pixels, height_map, ground_level, craters, clock,
                   ncreates, last, game>>

\* One dune of add_sand_dunes.  random.randint(100, width - 100) raises
\* ValueError when width - 100 < 100; otherwise the dune is drawn and added.
AddSandDune(dune_center, draw, steep_side) ==
    /\ gen.stage \in {"height_map", "sand_dunes"}
    /\ gen.dunes_left > 0
    /\ IF DUNE_MARGIN > gen.width - DUNE_MARGIN
       THEN gen' = [gen EXCEPT !.stage = "raised"]
       ELSE /\ dune_center \in DUNE_MARGIN..(gen.width - DUNE_MARGIN)
            /\ gen' = [gen EXCEPT
                         !.stage = "sand_dunes",
                         !.dunes_left = @ - 1,
                         !.profile = AddDune(@, gen.width, dune_center,
                                             (draw * gen.complexity2) \div 2,
                                             steep_side)]
    /\ UNCHANGED <<terrain_pixels, height_map, ground_level, craters, clock,
                   ncreates, last, game>>

\* smooth_terrain(dune_enhanced_map, iterations=1) and the return.
SmoothAndReturn ==
    /\ gen.stage \in {"height_map", "sand_dunes"}
    /\ gen.dunes_left = 0
    /\ gen' = [gen EXCEPT !.stage = "done",
                          !.profile = smooth_terrain(@, gen.width, 1)]
    /\ UNCHANGED <<terrain_pixels, height_map, ground_level, craters, clock,
                   ncreates, last, game>>

\* ------------------------------------------------------------------ the game
\* Lengths of the game are in tenths of a pixel: positions and velocities of
\* projectiles are multiples of 0.1 for the shots of the model.
ROCKET_RADIUS == 40
BLAST_RADIUS == 60
BANANA_TIMER == 180
GRAVITY_TENTHS == 5
OFFSCREEN_MARGIN == 50
SLOPE_PROBE == 5
PLAYER_SIZE == 32
MAX_HEALTH == 100
MIN_POWER == 5
POWER_STEP == 10
MAX_POWER == 100
MAX_VELOCITY == 30

Weapons == {"rocket", "banana", "melee"}

\* The real number t/10 as the model's half-pixel argument with the same
\* int(), the same floor and the same order against every integer.
TenthsToHalves(t) == IF t % 10 = 0 THEN 2 * (t \div 10) ELSE 2 * (t \div 10) + 1

\* Projectile(x, y, velocity_x, velocity_y, weapon_type, power_level)
Projectile(x, y, velocity_x, velocity_y, weapon_type, power_level) ==
    [x |-> x, y |-> y, velocity_x |-> velocity_x, velocity_y |-> velocity_y,
     weapon_type |-> weapon_type, power_level |-> power_level, active |-> TRUE,
     explosion_radius |-> IF weapon_type = "rocket" THEN ROCKET_RADIUS ELSE BLAST_RADIUS,
     timer |-> IF weapon_type = "banana" THEN BANANA_TIMER ELSE 0]

\* What fire_weapon returns when it returns None.
NoProjectile ==
    [x |-> 0, y |-> 0, velocity_x |-> 0, velocity_y |-> 0, weapon_type |-> "none",
     power_level |-> 0, active |-> FALSE, explosion_radius |-> 0, timer |-> 0]

\* Player(x, y, player_id) with the aim the keys have brought it to.
Player(x, y, player_id, aim_angle) ==
    [x |-> x, y |-> y, player_id |-> player_id, health |-> MAX_HEALTH,
     aim_angle |-> aim_angle, power |-> 0, charging_power |-> FALSE,
     current_weapon |-> "rocket"]

\* cos and sin of math.radians(aim_angle) for the two aims of the model:
\* straight up (-90) and level to the right (0).  cos(radians(-90)) is
\* 6.1e-17 in floating point, which moves no int() and no comparison.
AimCos(aim_angle) == IF aim_angle = 0 THEN 1 ELSE 0
AimSin(aim_angle) == IF aim_angle = -90 THEN -1 ELSE 0

\* Faulty variant of fire_weapon: the threshold test is power <= 5.
fire_weapon_above_threshold(p) ==
    IF p.power <= MIN_POWER
    THEN [fired |-> FALSE, projectile |-> NoProjectile, player |-> p]
    ELSE [fired |-> TRUE,
          projectile |->
              Projectile(10 * p.x + 5 * PLAYER_SIZE, 10 * p.y + 5 * PLAYER_SIZE,
                         AimCos(p.aim_angle) * ((MAX_VELOCITY * p.power) \div 10),
                         AimSin(p.aim_angle) * ((MAX_VELOCITY * p.power) \div 10),
                         p.current_weapon, p.power),
          player |-> [p EXCEPT !.power = 0, !.charging_power = FALSE]]

\* Player.fire_weapon: whether a projectile is returned, the projectile, and
\* the player after the call.  power_multiplier = power / 100.0 * 30 is
\* 3 * power tenths of a pixel per frame.
fire_weapon(p) ==
    IF p.power < MIN_POWER
    THEN [fired |-> FALSE, projectile |-> NoProjectile, player |-> p]
    ELSE [fired |-> TRUE,
          projectile |->
              Projectile(10 * p.x + 5 * PLAYER_SIZE, 10 * p.y + 5 * PLAYER_SIZE,
                         AimCos(p.aim_angle) * ((MAX_VELOCITY * p.power) \div 10),
                         AimSin(p.aim_angle) * ((MAX_VELOCITY * p.power) \div 10),
                         p.current_weapon, p.power),
          player |-> [p EXCEPT !.power = 0, !.charging_power = FALSE]]

\* The record of the last fire_weapon call: the player's power and
\* charging_power before it, and what it returned and left.
NoFire ==
    [called |-> FALSE, power |-> 0, charging_power |-> FALSE, fired |-> FALSE,
     projectile |-> NoProjectile, power_after |-> 0, charging_after |-> FALSE]

FireRecord(p, out) ==
    [called |-> TRUE, power |-> p.power, charging_power |-> p.charging_power,
     fired |-> out.fired, projectile |-> out.projectile,
     power_after |-> out.player.power,
     charging_after |-> out.player.charging_power]

\* if keys[pygame.K_RETURN]: start charging at power 0, or add 10 up to 100.
ChargePower(p, key_return) ==
    IF ~key_return THEN p
    ELSE IF ~p.charging_power
         THEN [p EXCEPT !.charging_power = TRUE, !.power = 0]
         ELSE [p EXCEPT !.power = Min(MAX_POWER, @ + POWER_STEP)]

\* KEYUP of Enter in handle_input: when the current player is charging,
\* fire_weapon is called and a returned projectile starts its flight.
ReleaseEnter(g) ==
    LET me == g.current_player + 1
        p == g.players[me]
        out == fire_weapon(p)
    IN IF ~p.charging_power THEN g
       ELSE [g EXCEPT !.players[me] = out.player,
                      !.projectiles = IF out.fired THEN Append(@, out.projectile) ELSE @,
                      !.state = IF out.fired THEN "PROJECTILE_FLYING" ELSE @,
                      !.shots = IF out.fired THEN @ + 1 ELSE @,
                      !.fire = FireRecord(p, out),
                      !.released_charging = TRUE]

\* One event of the for loop of handle_input.  Events other than the
\* weapon keys and the release of Enter change nothing the model holds.
ApplyEvent(g, event) ==
    LET me == g.current_player + 1
    IN CASE event = "KEYDOWN_1" -> [g EXCEPT !.players[me].current_weapon = "rocket"]
         [] event = "KEYDOWN_2" -> [g EXCEPT !.players[me].current_weapon = "banana"]
         [] event = "KEYDOWN_3" -> [g EXCEPT !.players[me].current_weapon = "melee"]
         [] event = "KEYUP_RETURN" -> ReleaseEnter(g)
         [] OTHER -> g

RECURSIVE ApplyEvents(_, _, _)
ApplyEvents(g, events, i) ==
    IF i > Len(events) THEN g ELSE ApplyEvents(ApplyEvent(g, events[i]), events, i + 1)

\* GameManager.handle_input(keys, events) with no movement and no aim key
\* held: key_return is keys[pygame.K_RETURN].
handle_input(key_return, events) ==
    /\ game.phase = "input"
    /\ game' =
         IF game.state # "PLAYING"
         THEN [game EXCEPT !.phase = "update", !.fire = NoFire,
                           !.released_charging = FALSE]
         ELSE ApplyEvents(
                  [game EXCEPT !.phase = "update", !.fire = NoFire,
                               !.released_charging = FALSE,
                               !.players[game.current_player + 1] =
                                   ChargePower(@, key_return)],
                  events, 1)
    /\ UNCHANGED <<terrain_pixels, height_map, ground_level, craters, clock,
                   ncreates, last, gen>>

\* while self.players[self.current_player].health <= 0 and attempts < 2
RECURSIVE SkipDead(_, _, _)
SkipDead(players, current, attempts) ==
    IF players[current + 1].health <= 0 /\ attempts < Len(players)
    THEN SkipDead(players, (current + 1) % Len(players), attempts + 1)
    ELSE current

\* GameManager.next_turn
next_turn(g) ==
    [g EXCEPT !.current_player =
                  SkipDead(g.players, (g.current_player + 1) % Len(g.players), 0),
              !.state = "PLAYING"]

\* The end of GameManager.update: the turn passes when no projectile is
\* left, and the game is over when at most one player is alive.
FinishUpdate(g, flying) ==
    LET turned == IF flying /\ Len(g.projectiles) = 0 THEN next_turn(g) ELSE g
        alive == {i \in 1..Len(turned.players) : turned.players[i].health > 0}
    IN [turned EXCEPT !.state = IF Cardinality(alive) <= 1 THEN "GAME_OVER" ELSE @,
                      !.phase = "input"]

\* The damage loop of Projectile.explode: each player within the explosion
\* radius loses max(0, int(50 - distance / radius * 30)) health.  The model
\* does not follow the players' positions: damages[i] is what player i loses.
Damaged(g, damages) ==
    [g EXCEPT !.players = [i \in 1..Len(g.players) |->
                              [g.players[i] EXCEPT !.health = @ - damages[i]]]]

\* Faulty variant of ExplodeTerrain: the crater is created and the merge
\* pass is left out.
ExplodeTerrainUnmerged(x, y, radius, now) ==
    /\ terrain_pixels' = CarvedPixels(terrain_pixels, IntOf(TenthsToHalves(x)),
                                      IntOf(TenthsToHalves(y)), radius)
    /\ height_map' = update_height_map(terrain_pixels')
    /\ craters' = Append(craters, CraterInfo(IntOf(TenthsToHalves(x)),
                                             IntOf(TenthsToHalves(y)), radius, now))
    /\ clock' = now
    /\ ncreates' = ncreates + 1
    /\ last' = [op |-> "explode", center_x2 |-> TenthsToHalves(x),
                center_y2 |-> TenthsToHalves(y), radius |-> radius]
    /\ UNCHANGED <<ground_level, gen>>

\* The terrain part of Projectile.explode at (x/10, y/10):
\* terrain_map.create_crater(self.x, self.y, self.explosion_radius), then
\* terrain_map.merge_overlapping_craters() on the list created, which holds
\* the new record.
ExplodeTerrain(x, y, radius, now) ==
    /\ terrain_pixels' = CarvedPixels(terrain_pixels, IntOf(TenthsToHalves(x)),
                                      IntOf(TenthsToHalves(y)), radius)
    /\ height_map' = update_height_map(terrain_pixels')
    /\ \E created \in {Append(craters, CraterInfo(IntOf(TenthsToHalves(x)),
                                                  IntOf(TenthsToHalves(y)),
                                                  radius, now))} :
           craters' = MergedList(created)
    /\ clock' = now
    /\ ncreates' = ncreates + 1
    /\ last' = [op |-> "explode", center_x2 |-> TenthsToHalves(x),
                center_y2 |-> TenthsToHalves(y), radius |-> radius]
    /\ UNCHANGED <<ground_level, gen>>

\* Projectile.explode away from a flight: players are damaged, the crater is
\* created and the list is merged.
explode(x, y, radius, now, damages) ==
    /\ ExplodeTerrain(x, y, radius, now)
    /\ game' = Damaged(game, damages)

\* The first half of Projectile.update: the move, gravity and the banana
\* timer.
Moved(projectile) ==
    [projectile EXCEPT
        !.x = @ + projectile.velocity_x,
        !.y = @ + projectile.velocity_y,
        !.velocity_y = @ + GRAVITY_TENTHS,
        !.timer = IF projectile.weapon_type = "banana" THEN @ - 1 ELSE @]

\* terrain.get_ground_height at x/10 + dx.
GroundAt(x, dx) ==
    get_ground_height(height_map, terrain_pixels, TenthsToHalves(x + 10 * dx))

\* Where the projectile explodes in this frame, if it does: the banana
\* timer runs out, or the projectile is at or below the ground or in a solid
\* cell.  On a slope of more than 5 degrees, which for integer heights ten
\* columns apart is any difference, the explosion is moved to the surface.
TimerOut(moved) == moved.weapon_type = "banana" /\ moved.timer <= 0

HitsGround(moved) ==
    \/ moved.y >= 10 * GroundAt(moved.x, 0)
    \/ is_solid_at_outcome(terrain_pixels, TenthsToHalves(moved.x),
                           TenthsToHalves(moved.y)).value

ExplosionY(moved) ==
    IF ~TimerOut(moved) /\ GroundAt(moved.x, SLOPE_PROBE) # GroundAt(moved.x, -SLOPE_PROBE)
    THEN 10 * GroundAt(moved.x, 0)
    ELSE moved.y

\* if self.x < -50 or self.x > SCREEN_WIDTH + 50 or self.y > SCREEN_HEIGHT + 50
OffScreen(moved) ==
    \/ moved.x < -10 * OFFSCREEN_MARGIN
    \/ moved.x > 10 * (W + OFFSCREEN_MARGIN)
    \/ moved.y > 10 * (H + OFFSCREEN_MARGIN)

\* Faulty variant of update: a projectile that leaves the screen is made
\* inactive and stays in the list.
update_keeping_offscreen(damages) ==
    /\ game.phase = "update"
    /\ Len(game.projectiles) <= 1
    /\ IF game.state = "PROJECTILE_FLYING" /\ Len(game.projectiles) = 1
          /\ game.projectiles[1].active
       THEN \E moved \in {Moved(game.projectiles[1])} :
               IF TimerOut(moved) \/ HitsGround(moved)
               THEN /\ \E y \in {ExplosionY(moved)} :
                          ExplodeTerrain(moved.x, y, moved.explosion_radius,
                                         clock + 1)
                    /\ game' = FinishUpdate(
                                   Damaged([game EXCEPT !.projectiles = <<>>], damages),
                                   TRUE)
               ELSE /\ game' = FinishUpdate(
                                   [game EXCEPT !.projectiles =
                                       <<[moved EXCEPT !.active = ~OffScreen(moved)]>>],
                                   TRUE)
                    /\ UNCHANGED <<terrain_pixels, height_map, ground_level,
                                   craters, clock, ncreates, last, gen>>
       ELSE /\ game' = FinishUpdate(game, game.state = "PROJECTILE_FLYING")
            /\ UNCHANGED <<terrain_pixels, height_map, ground_level, craters,
                           clock, ncreates, last, gen>>

\* GameManager.update: one frame.  The one projectile in flight moves; it
\* explodes and is removed, leaves the screen and is removed, or stays.
\* Then the turn passes if no projectile is left, and the players alive are
\* counted.
update(damages) ==
    /\ game.phase = "update"
    /\ Len(game.projectiles) <= 1
    /\ IF game.state = "PROJECTILE_FLYING" /\ Len(game.projectiles) = 1
       THEN \E moved \in {Moved(game.projectiles[1])} :
               IF TimerOut(moved) \/ HitsGround(moved)
               THEN /\ \E y \in {ExplosionY(moved)} :
                          ExplodeTerrain(moved.x, y, moved.explosion_radius,
                                         clock + 1)
                    /\ game' = FinishUpdate(
                                   Damaged([game EXCEPT !.projectiles = <<>>], damages),
                                   TRUE)
               ELSE /\ game' = FinishUpdate(
                                   [game EXCEPT !.projectiles =
                                       IF OffScreen(moved) THEN <<>> ELSE <<moved>>],
                                   TRUE)
                    /\ UNCHANGED <<terrain_pixels, height_map, ground_level,
                                   craters, clock, ncreates, last, gen>>
       ELSE /\ game' = FinishUpdate(game, game.state = "PROJECTILE_FLYING")
            /\ UNCHANGED <<terrain_pixels, height_map, ground_level, craters,
                           clock, ncreates, last, gen>>

\* The game: two players at rest with their centres over column 1 and
\* column W - 2 of a flat map, one aiming straight up and the other level,
\* both with full or both with half health.  Player.update is not followed:
\* the players stay where they are, and what an explosion costs each of them
\* is drawn from Damages.
PlayerXs == <<1 - (PLAYER_SIZE \div 2), W - 2 - (PLAYER_SIZE \div 2)>>
Aims == {-90, 0}
AimPairs == {<<-90, 0>>, <<0, -90>>}
HealthPairs == {<<MAX_HEALTH, MAX_HEALTH>>, <<MAX_HEALTH \div 2, MAX_HEALTH \div 2>>}
Damages == {0, MAX_HEALTH \div 2}

NewGame(aims, healths) ==
    [phase |-> "input", state |-> "PLAYING", current_player |-> 0,
     players |-> [i \in 1..2 |->
                     [Player(PlayerXs[i], 1 - PLAYER_SIZE, i - 1, aims[i])
                        EXCEPT !.health = healths[i]]],
     projectiles |-> <<>>, shots |-> 0, fire |-> NoFire,
     released_charging |-> FALSE]


\* ----------------------------------------------------------- specifications
\* TerrainMap(width, height, height_map) with a list: the list is copied and
\* ground_level is its average.
InitFromList(profile) ==
    /\ height_map = profile
    /\ ground_level = SumTo(profile, W) \div W
    /\ terrain_pixels = InitialPixels(profile)

\* TerrainMap(width, height, ground_level) with a single ground level.
InitFromLevel(level) ==
    /\ ground_level = level
    /\ height_map = [x \in Cols |-> level]
    /\ terrain_pixels = InitialPixels([x \in Cols |-> level])

InitQuiet ==
    /\ craters = <<>>
    /\ clock = 0
    /\ ncreates = 0
    /\ last = [op |-> "init", center_x2 |-> 0, center_y2 |-> 0, radius |-> 0]
    /\ gen = [stage |-> "idle", width |-> 0, complexity2 |-> 0, draw |-> 0,
              iterations |-> 0, dunes_left |-> 0, profile |-> <<>>,
              previous |-> [width |-> 0, complexity2 |-> 0, draw |-> 0,
                            profile |-> <<>>]]

\* The state outside a game: no key has been pressed yet.
InitRest ==
    /\ InitQuiet
    /\ game = NewGame([i \in 1..2 |-> -90], [i \in 1..2 |-> MAX_HEALTH])

\* Height profiles with one step in the middle of the map: a plateau at
\* height a on the left and a plateau at height b, one row higher, lower or
\* level, on the right.
StepProfiles ==
    {[x \in Cols |-> IF x < W \div 2 THEN ab[1] ELSE ab[2]] :
        ab \in {p \in (0..H) \X (0..H) : Abs(p[1] - p[2]) <= 1}}

Init ==
    /\ \/ \E profile \in StepProfiles : InitFromList(profile)
       \/ \E level \in 0..H : InitFromLevel(level)
    /\ InitRest

\* Crater centres of Spec, in halves: every column, row 1.
CenterXs == {2 * x : x \in Cols}
CenterYs == {2}
Radii == {1, 2}

\* Explosions: create_crater with a positive radius.
CreateCrater ==
    /\ ncreates < MaxCreates
    /\ \E cx2 \in CenterXs, cy2 \in CenterYs, r \in Radii :
          create_crater(cx2, cy2, r, clock + 1)

\* create_crater with a radius that is not positive, at the left edge and in
\* the middle of the grid.
CreateDegenerate ==
    /\ ncreates < MaxCreates
    /\ \E cx2 \in {0, 2 * (W \div 2)}, cy2 \in CenterYs, r \in {-1, 0} :
          create_crater(cx2, cy2, r, clock + 1)

MergeCraters == merge_overlapping_craters

Next == CreateCrater \/ CreateDegenerate \/ MergeCraters

Spec == Init /\ [][Next]_vars

\* The grids that explosions alone produce: the same maps and craters as in
\* Spec, with no merge pass and no degenerate radius.
NextCarve == CreateCrater

SpecCarve == Init /\ [][NextCarve]_vars


\* Crater merging: a flat map, craters at a few centres that overlap or not
\* depending on the radii, and a clock that may stand still between calls.
MergeCenters == {<<1, 1>>, <<2, 0>>, <<4, 4>>, <<6, 0>>, <<10, 2>>}

\* time.time() does not go back between two calls and may return the same
\* value twice.
Times == {clock, clock + 1}

InitMerge == InitFromLevel(1) /\ InitRest

CreateMergeCrater ==
    /\ ncreates < MaxMergeCreates
    /\ \E c \in MergeCenters, r \in Radii, now \in Times :
          create_crater(c[1], c[2], r, now)

NextMerge == CreateMergeCrater \/ MergeCraters

SpecMerge == InitMerge /\ [][NextMerge]_vars

\* The record cap: explosions spread along a line, three columns apart, so
\* that no two of them overlap.
InitCap == InitFromLevel(1) /\ InitRest

CreateSpreadCrater ==
    /\ ncreates < MaxCapCreates
    /\ create_crater(2 * 3 * ncreates, 2, 1, clock + 1)

NextCap == CreateSpreadCrater \/ MergeCraters

SpecCap == InitCap /\ [][NextCap]_vars

\* The record cap with merges: the explosions of SpecCap, and once the list
\* is full an explosion may also fall on the place of the very first one, so
\* that the oldest record takes part in a merge.
CreateOverFirst ==
    /\ ncreates < MaxCapCreates
    /\ ncreates >= MAX_CRATERS
    /\ create_crater(0, 2, 1, clock + 1)

NextRecent == CreateSpreadCrater \/ CreateOverFirst \/ MergeCraters

SpecRecent == InitCap /\ [][NextRecent]_vars


\* Large explosions: craters of radius 1 and 16 at the columns 0, 1, 21 and
\* 24 of row 0.  Two craters of radius 16 that are 21 or 24 columns apart
\* overlap, and their extent exceeds the larger radius by more than
\* RADIUS_EXPANSION.  On every list that up to MaxBlastCreates + 1 of these
\* craters and any number of merge passes produce, WeightedCoord and
\* MergedRadius return what the Python expressions return.
BlastCenters == {<<0, 0>>, <<2, 0>>, <<42, 0>>, <<48, 0>>}
BlastRadii == {1, 16}

InitBlast == InitFromLevel(1) /\ InitRest

CreateBlastCrater ==
    /\ ncreates < MaxBlastCreates
    /\ \E c \in BlastCenters, r \in BlastRadii :
          create_crater(c[1], c[2], r, clock + 1)

NextBlast == CreateBlastCrater \/ MergeCraters

SpecBlast == InitBlast /\ [][NextBlast]_vars

\* The terrain generator: widths on both sides of the smallest width for
\* which add_sand_dunes can draw a dune centre, the three complexities, and
\* for random.random() and the dune centre two draws each, for the dune
\* height the largest draw, and both steep sides.
Widths == {1, 2 * DUNE_MARGIN - 1, 2 * DUNE_MARGIN, MaxWidth}
RandomDraws == {0, 1}
DuneCenters == {DUNE_MARGIN, MaxWidth - DUNE_MARGIN}
DuneHeightDraws == {60}
SteepSides == {-1, 1}

InitGen == InitFromLevel(1) /\ InitRest

Generate ==
    \E width \in Widths, c2 \in Complexities, r2 \in RandomDraws :
        GenerateHeightMap(width, c2, r2)

Dune ==
    \E dune_center \in DuneCenters, draw \in DuneHeightDraws, steep_side \in SteepSides :
        AddSandDune(dune_center, draw, steep_side)

NextGen == Generate \/ Dune \/ SmoothAndReturn

SpecGen == InitGen /\ [][NextGen]_vars

\* Repeated calls of generate_height_map on one generator, with the inputs of
\* SpecGen.
CallTwice ==
    \E width \in Widths, c2 \in Complexities, r2 \in RandomDraws :
        CallHeightMap(width, c2, r2)

NextCalls == CallTwice

SpecCalls == InitGen /\ [][NextCalls]_vars

\* Smoothing on its own: every profile of up to MaxLen values drawn from
\* SmoothHeights, negative heights included, and 0 to MaxIterations passes.
SmoothHeights == {-5, -2, 1, 4}
SmoothProfiles == UNION {[0..(n - 1) -> SmoothHeights] : n \in 0..MaxLen}

Smooth ==
    \E profile \in SmoothProfiles, iterations \in 0..MaxIterations :
        SmoothTerrain(profile, Cardinality(DOMAIN profile), iterations)

NextSmooth == Smooth

SpecSmooth == InitGen /\ [][NextSmooth]_vars


InitGame ==
    /\ InitFromLevel(1)
    /\ InitQuiet
    /\ \E aims \in AimPairs, healths \in HealthPairs :
          game = NewGame(aims, healths)

\* What the keyboard gives a frame: Enter held or not, and the events of the
\* frame.
EventLists ==
    {<<>>, <<"KEYUP_RETURN">>, <<"KEYDOWN_2">>, <<"KEYDOWN_F1", "KEYUP_RETURN">>}

\* handle_input of the main loop; after MaxShots shots the keyboard is left
\* alone.
Input ==
    \E key_return \in BOOLEAN, events \in EventLists :
        /\ game.shots < MaxShots \/ (~key_return /\ events = <<>>)
        /\ handle_input(key_return, events)

\* update of the main loop.
Frame == \E damages \in [1..2 -> Damages] : update(damages)

NextGame == Input \/ Frame

SpecGame == InitGame /\ [][NextGame]_vars

\* The main loop calls handle_input and update in turn, in every iteration
\* for as long as the program runs: the loop does not stop between two calls.
SpecGameFair == SpecGame /\ WF_vars(NextGame)

\* fire_weapon on its own: a player with any power from 0 to 100, charging
\* or not, with any weapon, fires once.
InitFire ==
    /\ InitFromLevel(1)
    /\ InitQuiet
    /\ \E power \in 0..MAX_POWER, charging_power \in BOOLEAN,
          weapon \in Weapons, aim_angle \in Aims :
          game = [NewGame([i \in 1..2 |-> aim_angle], [i \in 1..2 |-> MAX_HEALTH])
                    EXCEPT !.players[1].power = power,
                           !.players[1].charging_power = charging_power,
                           !.players[1].current_weapon = weapon]

FireWeapon ==
    /\ ~game.fire.called
    /\ LET out == fire_weapon(game.players[1])
       IN game' = [game EXCEPT !.players[1] = out.player,
                               !.fire = FireRecord(game.players[1], out)]
    /\ UNCHANGED <<terrain_pixels, height_map, ground_level, craters, clock,
                   ncreates, last, gen>>

NextFire == FireWeapon

SpecFire == InitFire /\ [][NextFire]_vars

\* The game's protocol on the crater list: every explosion is a call of
\* Projectile.explode.  Rockets explode 64 pixels apart along a row, which
\* is the closest two craters of radius 40 can be without overlapping, and
\* once the list is full a rocket may also fall on the place of the first.
\* The players are out of reach of the explosions.
NoDamage == [i \in 1..2 |-> 0]

ExplodeSpread ==
    /\ ncreates < MaxCapCreates
    /\ explode(10 * 64 * ncreates, 10, ROCKET_RADIUS, clock + 1, NoDamage)

ExplodeOverFirst ==
    /\ ncreates < MaxCapCreates
    /\ ncreates >= MAX_CRATERS
    /\ explode(0, 10, ROCKET_RADIUS, clock + 1, NoDamage)

NextExplode == ExplodeSpread \/ ExplodeOverFirst

SpecExplode == InitCap /\ [][NextExplode]_vars

\* ------------------------------------------------------------------ claims
LastCx == IntOf(last.center_x2)
LastCy == IntOf(last.center_y2)
LastIsCreate == last.op = "create_crater"
LastIsMerge == last.op = "merge_overlapping_craters"

\* Arguments of the height queries, in halves: every column, and -1.5, 1.5
\* and W + 0.5.
QueryXs == {2 * x : x \in Cols} \cup {-3, 3, 2 * W + 1}

\* The merge pass works on coordinates and radii inside the domain for which
\* FloatShortfall was computed.
FloatShortfallDomain ==
    \A i \in 1..Len(craters) :
        \/ craters[i].x > 9 /\ craters[i].radius = 1
        \/ /\ craters[i].x \in 0..9 /\ craters[i].y \in 0..9
           /\ Abs(craters[i].radius) <= 16

\* C1: after create_crater(cx, cy, r) with the centre inside the grid and
\* r > 0, is_solid_at is false for every cell whose Euclidean distance from
\* the centre is <= r.
C1_CraterClearsCircle ==
    (LastIsCreate /\ last.radius > 0 /\ LastCx \in Cols /\ LastCy \in Rows) =>
        \A x \in (-1)..W, y \in (-1)..H :
            (x - LastCx) * (x - LastCx) + (y - LastCy) * (y - LastCy)
                <= last.radius * last.radius
            => ~is_solid_at(terrain_pixels, x, y)

\* A second crater of radius >= 2 with its centre in the grid, on a map that
\* still has solid cells beside the crater.
C1_Witness ==
    /\ LastIsCreate /\ last.radius >= 2 /\ ncreates = 2
    /\ LastCx \in Cols /\ LastCy \in Rows
    /\ LastCx + last.radius \in Cols
    /\ is_solid_at(terrain_pixels, LastCx + last.radius, LastCy + 1)

\* C2: in every state (after construction, after every create_crater and
\* after every merge) height_map[x] is the smallest solid row of column x, or
\* H when column x has no solid cell.
C2_HeightMapMatchesGrid ==
    \A x \in Cols :
        \/ /\ height_map[x] = H
           /\ \A y \in Rows : ~terrain_pixels[x][y]
        \/ /\ height_map[x] \in Rows
           /\ terrain_pixels[x][height_map[x]]
           /\ \A y \in Rows : y < height_map[x] => ~terrain_pixels[x][y]

\* After a crater and a merge, a column whose top row is solid above a
\* carved cell, and a column carved down from the top.
C2_Witness ==
    /\ LastIsMerge /\ ncreates >= 1
    /\ \E x \in Cols : terrain_pixels[x][0] /\ ~terrain_pixels[x][1]
    /\ \E x \in Cols : ~terrain_pixels[x][0] /\ ~terrain_pixels[x][1] /\ height_map[x] = 2

\* C3: no step of create_crater or merge_overlapping_craters makes an empty
\* cell solid.
C3_NeverResolidified ==
    [][\A x \in Cols, y \in Rows :
          ~terrain_pixels[x][y] => ~terrain_pixels'[x][y]]_vars

\* Two overlapping craters of positive radius have been carved.
C3_Witness ==
    /\ LastIsCreate /\ Len(craters) = 2
    /\ craters[1].radius > 0 /\ craters[2].radius > 0
    /\ Overlaps(craters[2], craters[1])
    /\ \E x \in Cols : height_map[x] < H

\* C4: the crater-record list never holds more than 50 records.
C4_CraterListCapped == Len(craters) <= MAX_CRATERS

\* C5: a merge pass that directly follows a merge pass leaves the list as it
\* was: the same records in the same order.
C5_MergeIdempotent ==
    [][(LastIsMerge /\ last'.op = "merge_overlapping_craters") => craters' = craters]_vars

\* C6: a merge pass on a list of exactly two records with positive radii
\* leaves one record when d < 0.8 * (r1 + r2) and two when d > 0.8 * (r1 + r2).
C6_TwoCraterMerge ==
    [][(/\ last'.op = "merge_overlapping_craters"
        /\ Len(craters) = 2
        /\ craters[1].radius > 0 /\ craters[2].radius > 0)
       => LET d2 == DistSq(craters[1], craters[2])
              sum == craters[1].radius + craters[2].radius
          IN /\ 25 * d2 < 16 * sum * sum => Len(craters') = 1
             /\ 25 * d2 > 16 * sum * sum => Len(craters') = 2]_vars

\* Two craters whose circles intersect, but by less than the overlap factor,
\* are still two records after the merge pass.
C6_Witness ==
    /\ LastIsMerge /\ ncreates = 2 /\ Len(craters) = 2
    /\ LET d2 == DistSq(craters[1], craters[2])
           sum == craters[1].radius + craters[2].radius
       IN 25 * d2 > 16 * sum * sum /\ d2 < sum * sum

\* C7: create_crater(cx, cy, r) leaves every cell whose distance from the
\* centre is greater than r as it was.
C7_OutsideCircleUnchanged ==
    [][last'.op = "create_crater" =>
          \A x \in Cols, y \in Rows :
              (\/ last'.radius < 0
               \/ (x - IntOf(last'.center_x2)) * (x - IntOf(last'.center_x2))
                    + (y - IntOf(last'.center_y2)) * (y - IntOf(last'.center_y2))
                    > last'.radius * last'.radius)
              => terrain_pixels'[x][y] = terrain_pixels[x][y]]_vars

\* A crater of radius 1 whose bounding box has a corner that is still solid
\* next to a cleared cell.
C7_Witness ==
    /\ LastIsCreate /\ last.radius = 1
    /\ is_solid_at(terrain_pixels, LastCx + 1, LastCy + 1)
    /\ is_solid_at(terrain_pixels, LastCx - 1, LastCy + 1)
    /\ ~is_solid_at(terrain_pixels, LastCx, LastCy + 1)

\* C8: create_crater with a radius <= 0 leaves the grid, the height map and
\* the crater-record list as they were.
C8_NonPositiveRadiusNoOp ==
    [][(last'.op = "create_crater" /\ last'.radius <= 0) =>
          /\ terrain_pixels' = terrain_pixels
          /\ height_map' = height_map
          /\ craters' = craters]_vars

\* g is the smallest topmost-solid row (H for an empty column) over the grid
\* columns within SEARCH_RADIUS of the clamped column of x.
IsWindowedMinimum(x2, g) ==
    LET xc == IF IntOf(x2) < 0 THEN 0 ELSE IF IntOf(x2) > W - 1 THEN W - 1 ELSE IntOf(x2)
        window == {c \in Cols : Abs(c - xc) <= SEARCH_RADIUS}
    IN /\ \A c \in window : g <= TopSolid(terrain_pixels, c)
       /\ \E c \in window : g = TopSolid(terrain_pixels, c)

\* C9: in every state and for every x, get_ground_height(x) is the windowed
\* minimum over the window columns that lie inside the grid.
C9_WindowedMinimum ==
    \A x2 \in QueryXs :
        IsWindowedMinimum(x2, get_ground_height(height_map, terrain_pixels, x2))

\* A carved map on which a column emptied by a crater reports the height of a
\* neighbour, and whose window at the left edge is cut by the grid.
C9_Witness ==
    /\ ncreates >= 1
    /\ \E x \in Cols :
          /\ height_map[x] = H
          /\ get_ground_height(height_map, terrain_pixels, 2 * x) < H
    /\ get_ground_height(height_map, terrain_pixels, -3) < height_map[0]

\* C10: create_crater(cx, cy, r) leaves get_ground_height(x) as it was for
\* every column x with x < cx - r or x > cx + r.
C10_UnchangedOutsideBox ==
    [][last'.op = "create_crater" =>
          \A x \in Cols :
              (\/ x < IntOf(last'.center_x2) - last'.radius
               \/ x > IntOf(last'.center_x2) + last'.radius)
              => get_ground_height(height_map', terrain_pixels', 2 * x)
                   = get_ground_height(height_map, terrain_pixels, 2 * x)]_vars

\* C10, amended: create_crater(cx, cy, r) leaves get_ground_height(x) as it
\* was for every column x whose search window does not reach the bounding
\* box: x < cx - r - 3 or x > cx + r + 3.
C10_UnchangedOutsideWindowedBox ==
    [][last'.op = "create_crater" =>
          \A x \in Cols :
              (\/ x < IntOf(last'.center_x2) - last'.radius - SEARCH_RADIUS
               \/ x > IntOf(last'.center_x2) + last'.radius + SEARCH_RADIUS)
              => get_ground_height(height_map', terrain_pixels', 2 * x)
                   = get_ground_height(height_map, terrain_pixels, 2 * x)]_vars

\* A crater of positive radius that emptied its centre column, with a column
\* further than the radius plus the search window to its right.
C10_Witness ==
    /\ LastIsCreate /\ last.radius >= 1
    /\ LastCx + last.radius + SEARCH_RADIUS < W - 1
    /\ height_map[LastCx] = H
    /\ height_map[W - 1] < H

\* C11: create_crater never makes the ground shallower: for every query
\* argument x, get_ground_height(x) after the call is >= its value before.
C11_GroundNeverShallower ==
    [][last'.op = "create_crater" =>
          \A x2 \in QueryXs :
              get_ground_height(height_map', terrain_pixels', x2)
                >= get_ground_height(height_map, terrain_pixels, x2)]_vars

\* The first crater has lowered the reported ground of some column below
\* every height of the initial profile (no initial height exceeds
\* ground_level + 1).
C11_Witness ==
    /\ LastIsCreate /\ ncreates = 1 /\ last.radius > 0
    /\ \E x \in Cols :
          get_ground_height(height_map, terrain_pixels, 2 * x) > ground_level + 1

\* Arguments of is_solid_at, in halves: from -1 to W + 0.5 and from -1 to
\* H + 0.5 in steps of one half.
SolidXs == (-2)..(2 * W + 1)
SolidYs == (-2)..(2 * H + 1)

\* C12: is_solid_at(x, y) never raises; it returns false when x < 0, x >= W,
\* y < 0 or y >= H, and the grid value of cell (int(x), int(y)) otherwise.
C12_SolidAtTotal ==
    \A x2 \in SolidXs, y2 \in SolidYs :
        LET out == is_solid_at_outcome(terrain_pixels, x2, y2)
        IN /\ ~out.raised
           /\ out.value = IF x2 < 0 \/ x2 >= 2 * W \/ y2 < 0 \/ y2 >= 2 * H
                          THEN FALSE
                          ELSE terrain_pixels[x2 \div 2][y2 \div 2]

\* A cratered map whose first and last columns are solid in the bottom row,
\* so that the arguments -0.5 and W - 0.5 lie next to solid cells, the second
\* of them inside the grid.
C12_Witness ==
    /\ ncreates >= 1
    /\ terrain_pixels[0][H - 1]
    /\ is_solid_at_outcome(terrain_pixels, 2 * W - 1, 2 * H - 1).value
    /\ ~is_solid_at_outcome(terrain_pixels, -1, 2 * H - 1).value
    /\ \E x \in Cols : height_map[x] = H

\* Start rows of get_accurate_ground_height: from -(H + 1) to H + 1.
StartRows == (-(H + 1))..(H + 1)

\* C13: for every column x and integer y_start, get_accurate_ground_height
\* returns the smallest solid row y >= y_start with 0 <= y < H of column x,
\* or H when there is none; it does not raise and the value is in 0..H.
C13_AccurateGroundHeight ==
    \A x \in Cols, y_start \in StartRows :
        LET out == get_accurate_ground_height(terrain_pixels, 2 * x, 2 * y_start)
            below == {y \in Rows : y >= y_start /\ terrain_pixels[x][y]}
        IN /\ ~out.raised
           /\ out.value \in 0..H
           /\ out.value = IF below = {} THEN H ELSE SetMin(below)

\* Rectangles of check_wall_collision: left edge x, top y, width, height.
WallRects == {1, W - 2} \X {0, 1} \X {1} \X {2, 3}

\* C14: check_wall_collision(x, y, w, h) returns no collision only if no row
\* of [y, y + h) is solid at column x - 1 or at column x + w, and reports
\* "left" or "right" whenever some row of the span is solid at one of them.
C14_WallScanCoversSpan ==
    \A rect \in WallRects :
        LET x == rect[1]
            y == rect[2]
            w == rect[3]
            h == rect[4]
            hit == \E row \in y..(y + h - 1) :
                      \/ is_solid_at(terrain_pixels, x - 1, row)
                      \/ is_solid_at(terrain_pixels, x + w, row)
            res == check_wall_collision(terrain_pixels, 2 * x, 2 * y, w, h)
        IN /\ res = "none" => ~hit
           /\ hit => res \in {"left", "right"}

\* C17: create_crater(cx, cy, r) with r > 0 lengthens the crater list by
\* exactly one; the new record is the last one, with x = int(cx), y = int(cy)
\* (cx, cy >= 0), radius = r and a creation_time; the earlier records are
\* unchanged.
C17_CreateAppendsRecord ==
    [][(last'.op = "create_crater" /\ last'.radius > 0) =>
          /\ Len(craters') = Len(craters) + 1
          /\ SubSeq(craters', 1, Len(craters)) = craters
          /\ LET new == craters'[Len(craters')]
             IN /\ DOMAIN new = {"x", "y", "radius", "creation_time"}
                /\ 2 * new.x <= last'.center_x2 /\ last'.center_x2 < 2 * new.x + 2
                /\ 2 * new.y <= last'.center_y2 /\ last'.center_y2 < 2 * new.y + 2
                /\ new.radius = last'.radius
                /\ new.creation_time = clock']_vars

\* A crater at a fractional centre that repeats the circle of the record
\* before it, so that it overlaps that crater and removes no cell.
C17_Witness ==
    /\ LastIsCreate /\ Len(craters) >= 2
    /\ last.center_x2 % 2 = 1
    /\ LET n == Len(craters)
       IN /\ craters[n].x = craters[n - 1].x /\ craters[n].y = craters[n - 1].y
          /\ craters[n].radius = craters[n - 1].radius

\* C18: for every cell (x, y) of the grid with y < get_ground_height(x),
\* is_solid_at(x, y) is false.
C18_NoSolidAboveReportedGround ==
    \A x \in Cols :
        LET ground == get_ground_height(height_map, terrain_pixels, 2 * x)
        IN \A y \in Rows : y < ground => ~is_solid_at(terrain_pixels, x, y)

\* A carved map with an overhang (a solid top row above a carved cell) and a
\* column whose reported ground lies below the top row.
C18_Witness ==
    /\ ncreates >= 1
    /\ \E x \in Cols : terrain_pixels[x][0] /\ ~terrain_pixels[x][1]
    /\ \E x \in Cols : get_ground_height(height_map, terrain_pixels, 2 * x) >= 2

C19_ProfileInClampBand ==
    gen.stage = "done" =>
        /\ DOMAIN gen.profile = 0..(gen.width - 1)
        /\ \A x \in DOMAIN gen.profile : gen.profile[x] \in MIN_HEIGHT..MAX_HEIGHT

\* C20: for every width > 0 and every complexity in [0.5, 2.0] the
\* generation pipeline returns a profile and does not raise.
C20_GeneratorNeverRaises ==
    (gen.width > 0 /\ gen.complexity2 \in 1..4) => gen.stage # "raised"


C22_SmoothedWithinInputRange ==
    gen.stage = "smoothed" =>
        /\ DOMAIN gen.profile = DOMAIN gen.previous.profile
        /\ \A i \in DOMAIN gen.profile :
              /\ \E j \in DOMAIN gen.previous.profile :
                    gen.previous.profile[j] <= gen.profile[i]
              /\ \E j \in DOMAIN gen.previous.profile :
                    gen.profile[i] <= gen.previous.profile[j]

\* Two passes or more over a profile with an interior value have changed a
\* value and left a negative one that is not at either end.
C22_Witness ==
    /\ gen.stage = "smoothed"
    /\ gen.iterations >= 2
    /\ gen.width >= 3
    /\ gen.profile # gen.previous.profile
    /\ \E i \in 1..(gen.width - 2) :
          gen.profile[i] < 0 /\ gen.profile[i] # gen.previous.profile[i]


\* C24: in the list a merge pass has just returned, no two distinct records
\* satisfy the overlap test, whichever of the two was enlarged in the pass.
C24_MergedListHasNoOverlap ==
    LastIsMerge =>
        \A i, j \in 1..Len(craters) :
            i # j => ~Overlaps(craters[i], craters[j])


\* An empty cell of column x with a solid cell of the same column above it.
IsOverhang(x, y) ==
    /\ ~terrain_pixels[x][y]
    /\ \E above \in Rows : above < y /\ terrain_pixels[x][above]

\* C25: after construction and after every create_crater call, the solid
\* cells of each column form a contiguous suffix of the column: no empty
\* cell lies below a solid cell of the same column.
C25_ColumnsAreSuffixes ==
    \A x \in Cols, y \in Rows : ~IsOverhang(x, y)

\* C25, amended: the columns are suffixes after construction, and after
\* create_crater calls every empty cell that lies below a solid cell of its
\* column is inside the circle of one of the craters created so far.
C25_OverhangsOnlyInsideCraters ==
    /\ ncreates = 0 => \A x \in Cols, y \in Rows : ~IsOverhang(x, y)
    /\ \A x \in Cols, y \in Rows :
          IsOverhang(x, y) =>
              \E i \in 1..Len(craters) :
                  (x - craters[i].x) * (x - craters[i].x)
                    + (y - craters[i].y) * (y - craters[i].y)
                      <= craters[i].radius * craters[i].radius

\* A crater has been carved under a surface that was left standing: some
\* column has a solid top row and an empty cell below it.
C25_Witness ==
    /\ ncreates >= 1
    /\ Len(craters) = ncreates
    /\ \E x \in Cols, y \in Rows : IsOverhang(x, y)


\* C26: when a merge pass ends with more than 50 records, exactly 50 remain
\* and no dropped record is more recent than a kept one, a merged record
\* counting with the creation time the merge gave it.
C26_TruncationKeepsMostRecent ==
    [][(/\ last'.op = "merge_overlapping_craters"
        /\ Len(craters) >= 2
        /\ Len(MergedUntruncated(craters)) > MAX_CRATERS)
       => LET merged == MergedUntruncated(craters)
              dropped == Len(merged) - MAX_CRATERS
          IN /\ Len(craters') = MAX_CRATERS
             /\ \A d \in 1..dropped, k \in 1..Len(craters') :
                   merged[d].creation_time <= craters'[k].creation_time]_vars


C23_FiresFromMinimumPower ==
    game.fire.called =>
        /\ game.fire.fired <=> game.fire.power >= MIN_POWER
        /\ game.fire.fired =>
              /\ game.fire.projectile.active
              /\ game.fire.power_after = 0
              /\ ~game.fire.charging_after
        /\ ~game.fire.fired =>
              /\ game.fire.projectile = NoProjectile
              /\ game.fire.power_after = game.fire.power
              /\ game.fire.charging_after = game.fire.charging_power

\* fire_weapon has been called at the threshold: with power 5 while charging
\* it has returned a projectile.
C23_Witness ==
    /\ game.fire.called
    /\ game.fire.power = MIN_POWER
    /\ game.fire.charging_power
    /\ game.fire.fired
    /\ game.fire.projectile.power_level = MIN_POWER

\* C28: after every Projectile.explode, which creates a crater and then
\* merges the list, the list holds at most 50 records.
C28_ListCappedAfterExplode ==
    last.op = "explode" => Len(craters) <= MAX_CRATERS

\* An explosion has just found a full list and left it full: more than 50
\* explosions have happened and 50 records are held.
C28_Witness ==
    /\ last.op = "explode"
    /\ ncreates > MAX_CRATERS
    /\ Len(craters) = MAX_CRATERS

C30_ReleaseEndsCharging ==
    (game.phase = "update" /\ game.released_charging)
        => ~game.players[game.current_player + 1].charging_power

=============================================================================
